---------------------------- MODULE Spec2Model ----------------------------
(***************************************************************************)
(* State-machine model of EthPingPong.py: two wallets A and B send a fixed *)
(* amount back and forth; the script keeps a local nonce per wallet,       *)
(* advances it after an accepted broadcast and re-reads it from the node   *)
(* when a broadcast error looks nonce related.                             *)
(*                                                                         *)
(* The node behind w3.eth is the environment: every RPC either returns a   *)
(* value drawn from a small set or raises.  net[X] is the node's           *)
(* pending-inclusive transaction count of wallet X.                        *)
(***************************************************************************)
EXTENDS Integers, Sequences, FiniteSets, TLC

\* ------------------------------------------------------------------ bounds
\* Number of main_loop iterations explored (the loop itself is endless).
MaxTurn == 3
\* Number of transactions other software may send from the same keys.
MaxExternal == 1

\* --------------------------------------------------------------- constants
Keys == {"A", "B"}
FallbackGasLimit == 21000
None == 0 - 1

\* Values the node may answer with.
InitialCounts == {0, 1}
Estimates == {100000}
BaseFees == {100}
PriorityFees == {10}
GasPrices == {30}

\* ------------------------------------------------------------- error texts
\* str(e) is modelled as a tuple of characters so that lower() and the
\* substring tests of line 118 are computed, not assumed.
PatNonce ==
    << "n","o","n","c","e" >>
PatReplacement ==
    << "r","e","p","l","a","c","e","m","e","n","t"," ","t","r","a","n","s","a","c","t","i","o","n"," ","u","n","d","e","r","p","r","i","c","e","d" >>
PatAlreadyKnown ==
    << "a","l","r","e","a","d","y"," ","k","n","o","w","n" >>
ErrNonceTooLow ==
    << "n","o","n","c","e"," ","t","o","o"," ","l","o","w" >>
ErrNonceTooLowCap ==
    << "N","o","n","c","e"," ","t","o","o"," ","l","o","w" >>
ErrReplacement ==
    << "r","e","p","l","a","c","e","m","e","n","t"," ","t","r","a","n","s","a","c","t","i","o","n"," ","u","n","d","e","r","p","r","i","c","e","d" >>
ErrAlreadyKnown ==
    << "a","l","r","e","a","d","y"," ","k","n","o","w","n" >>
ErrInsufficientFunds ==
    << "i","n","s","u","f","f","i","c","i","e","n","t"," ","f","u","n","d","s" >>
ErrConnection ==
    << "C","o","n","n","e","c","t","i","o","n"," ","a","b","o","r","t","e","d","." >>
ErrUnknownNonce ==
    << "u","n","k","n","o","w","n"," ","n","o","n","c","e" >>
NoErr == << >>

\* Messages send_raw_transaction may raise with.
SendErrTexts ==
    {ErrNonceTooLow, ErrNonceTooLowCap, ErrReplacement, ErrAlreadyKnown,
     ErrInsufficientFunds, ErrConnection}
\* Messages wait_for_transaction_receipt may raise with, TimeExhausted apart:
\* the handler of line 114 reads them with the same test as the send errors,
\* so one text of each class is kept.
WaitErrTexts == {ErrConnection, ErrUnknownNonce}

UpperChars ==
    << "A","B","C","D","E","F","G","H","I","J","K","L","M",
       "N","O","P","Q","R","S","T","U","V","W","X","Y","Z" >>
LowerChars ==
    << "a","b","c","d","e","f","g","h","i","j","k","l","m",
       "n","o","p","q","r","s","t","u","v","w","x","y","z" >>

\* str.lower() on one character.
LowerChar(c) ==
    IF \E i \in 1..Len(UpperChars) : UpperChars[i] = c
    THEN LowerChars[CHOOSE i \in 1..Len(UpperChars) : UpperChars[i] = c]
    ELSE c

\* str.lower()
Lower(s) == [i \in 1..Len(s) |-> LowerChar(s[i])]

\* pat in s
Contains(s, pat) ==
    \E i \in 1..(Len(s) - Len(pat) + 1) : SubSeq(s, i, i + Len(pat) - 1) = pat

\* The condition of line 118, without the lower-casing.
IsNonceErrorCaseSensitive(errstr) ==
    \/ Contains(errstr, PatNonce)
    \/ Contains(errstr, PatReplacement)
    \/ Contains(errstr, PatAlreadyKnown)

\* The condition of line 118.
IsNonceError(errstr) ==
    \/ Contains(Lower(errstr), PatNonce)
    \/ Contains(Lower(errstr), PatReplacement)
    \/ Contains(Lower(errstr), PatAlreadyKnown)

\* ------------------------------------------------------------ pure helpers
\* w3.to_wei(n, "gwei")
ToWeiGwei(n) == n * 1000000000

\* The priority fee of line 63.
TwoGwei == ToWeiGwei(2)

Other(k) == IF k = "A" THEN "B" ELSE "A"

\* main_loop's choice of nkey, always wallet A.
SenderOfStuck(t) == "A"

\* main_loop's choice of nkey (lines 134-141).
SenderOf(t) == IF t % 2 = 0 THEN "A" ELSE "B"

\* main_loop's choice of the receiving address (lines 136, 140).
ReceiverOf(t) == IF t % 2 = 0 THEN "B" ELSE "A"

\* get_initial_nonces with the two counts exchanged.
InitialNoncesSwapped(na, nb) == [A |-> nb, B |-> na]

\* The dictionary get_initial_nonces returns (line 44).
InitialNonces(na, nb) == [A |-> na, B |-> nb]

\* nonces of the receiving wallet += 1
AdvanceWrongKey(n, k) == [n EXCEPT ![Other(k)] = @ + 1]

\* line 104 left out
AdvanceForgotten(n, k) == n

\* nonces[nonce_key] += 2
AdvanceTwice(n, k) == [n EXCEPT ![k] = @ + 2]

\* nonces[nonce_key] += 1 (line 104)
Advance(n, k) == [n EXCEPT ![k] = @ + 1]

\* nonces[nonce_key] = current + 1
ResyncOffByOne(n, k, current) == [n EXCEPT ![k] = current + 1]

\* nonces[nonce_key] = current (line 123)
Resync(n, k, current) == [n EXCEPT ![k] = current]

\* ------------------------------------------------- int and float of Python
\* A Python int has no width and a float is an IEEE 754 double.  An int is
\* kept here as its sequence of digits in base 2^LimbBits, least significant
\* first and without leading zeros (0 is the empty sequence); a float is a
\* record [m, e] that stands for m * 2^e, with m an int of at most
\* MantissaBits binary digits.  Only non-negative values occur.
LimbBits == 15
Base == 2^LimbBits
MantissaBits == 53
GuardBits == 60

RECURSIVE Trim(_)
Trim(b) ==
    IF Len(b) = 0 THEN << >>
    ELSE IF b[Len(b)] = 0 THEN Trim(SubSeq(b, 1, Len(b) - 1)) ELSE b

RECURSIVE ToBig(_)
ToBig(n) == IF n = 0 THEN << >> ELSE << n % Base >> \o ToBig(n \div Base)

RECURSIVE FromBig(_)
FromBig(b) == IF b = << >> THEN 0 ELSE Head(b) + Base * FromBig(Tail(b))

\* The digit of weight Base^(i-1), 0 beyond the ends.
Limb(b, i) == IF i >= 1 /\ i <= Len(b) THEN b[i] ELSE 0

\* The binary digit of weight 2^j.
Bit(b, j) == (Limb(b, (j \div LimbBits) + 1) \div 2^(j % LimbBits)) % 2

\* int.bit_length()
BitLen(b) ==
    IF b = << >> THEN 0
    ELSE (Len(b) - 1) * LimbBits
         + (CHOOSE k \in 1..LimbBits :
               2^(k - 1) <= b[Len(b)] /\ b[Len(b)] < 2^k)

RECURSIVE AddCarry(_, _, _)
AddCarry(a, b, c) ==
    IF c = 0 /\ b = << >> THEN a
    ELSE IF c = 0 /\ a = << >> THEN b
    ELSE LET s == Limb(a, 1) + Limb(b, 1) + c
             ta == IF a = << >> THEN << >> ELSE Tail(a)
             tb == IF b = << >> THEN << >> ELSE Tail(b)
         IN  << s % Base >> \o AddCarry(ta, tb, s \div Base)

\* int + int
AddBig(a, b) == AddCarry(a, b, 0)

\* int << k and int >> k
ShiftLeft(b, k) ==
    LET q == k \div LimbBits
        r == k % LimbBits
    IN  IF b = << >> THEN << >>
        ELSE Trim([i \in 1..(Len(b) + q + 1) |->
                     IF i <= q THEN 0
                     ELSE ((Limb(b, i - q) % 2^(LimbBits - r)) * 2^r)
                          + (Limb(b, i - q - 1) \div 2^(LimbBits - r))])
ShiftRight(b, k) ==
    LET q == k \div LimbBits
        r == k % LimbBits
    IN  IF q >= Len(b) THEN << >>
        ELSE Trim([i \in 1..(Len(b) - q) |->
                     (Limb(b, i + q) \div 2^r)
                     + ((Limb(b, i + q + 1) % 2^r) * 2^(LimbBits - r))])

\* int * d + c for one digit d and a carry c
RECURSIVE MulSmall(_, _, _)
MulSmall(a, d, c) ==
    IF a = << >> THEN ToBig(c)
    ELSE LET s == (Head(a) * d) + c
         IN  << s % Base >> \o MulSmall(Tail(a), d, s \div Base)

\* int * int
RECURSIVE MulBig(_, _)
MulBig(a, b) ==
    IF a = << >> \/ b = << >> THEN << >>
    ELSE AddBig(Trim(MulSmall(b, Head(a), 0)),
                ShiftLeft(MulBig(Tail(a), b), LimbBits))

\* divmod(int, d) for a small positive d: [q |-> quotient, r |-> remainder],
\* the quotient with leading zeros left in.
RECURSIVE DivRem(_, _)
DivRem(b, d) ==
    IF b = << >> THEN [q |-> << >>, r |-> 0]
    ELSE LET hi == DivRem(Tail(b), d)
             cur == (Base * hi.r) + Head(b)
         IN  [q |-> << cur \div d >> \o hi.q, r |-> cur % d]

\* int // d
DivBig(b, d) == Trim(DivRem(b, d).q)

\* The int a decimal literal denotes, digits given most significant first.
RECURSIVE Dec(_)
Dec(ds) ==
    IF ds = << >> THEN << >>
    ELSE Trim(MulSmall(Dec(SubSeq(ds, 1, Len(ds) - 1)), 10, ds[Len(ds)]))

\* The double nearest to m * 2^e (+ a little more when sticky), ties to even.
RoundToDouble(m, e, sticky) ==
    IF BitLen(m) <= MantissaBits THEN [m |-> m, e |-> e]
    ELSE LET k == BitLen(m) - MantissaBits
             q == ShiftRight(m, k)
             half == Bit(m, k - 1) = 1
             rest == sticky \/ \E j \in 0..(k - 2) : Bit(m, j) = 1
             up == half /\ (rest \/ Bit(q, 0) = 1)
             r == IF up THEN AddBig(q, << 1 >>) ELSE q
         IN  IF BitLen(r) > MantissaBits
             THEN [m |-> ShiftRight(r, 1), e |-> e + k + 1]
             ELSE [m |-> r, e |-> e + k]

\* float(n) for an int n, as the int * float of lines 66 and 87 converts it
IntToFloat(n) == RoundToDouble(n, 0, FALSE)

\* The float a literal equal to num/den denotes (2.5 and 1.1 in the source).
FloatLiteral(num, den) ==
    LET scaled == DivRem(ShiftLeft(ToBig(num), GuardBits), den)
    IN  RoundToDouble(Trim(scaled.q), 0 - GuardBits, scaled.r # 0)

\* float * float
MulFloat(x, y) == RoundToDouble(MulBig(x.m, y.m), x.e + y.e, FALSE)

\* int(x) and math.floor(x) of a non-negative float
FloorFloat(x) ==
    IF x.e >= 0 THEN ShiftLeft(x.m, x.e) ELSE ShiftRight(x.m, 0 - x.e)

\* The literals 1.1 (line 87) and 2.5 (line 66)
Float1_1 == FloatLiteral(11, 10)
Float2_5 == FloatLiteral(25, 10)

\* math.floor(estimated * 1.1) (line 87), on ints of any size
GasWithMarginBig(estimated) ==
    FloorFloat(MulFloat(IntToFloat(estimated), Float1_1))

\* int(base_fee * 2.5) + int(priority) (line 66), on ints of any size
MaxFeeBig(base_fee, priority) ==
    AddBig(FloorFloat(MulFloat(IntToFloat(base_fee), Float2_5)), priority)

\* math.floor(estimated * 1.1) (line 87)
GasWithMargin(estimated) == FromBig(GasWithMarginBig(ToBig(estimated)))

\* int(base_fee * 2.5) + int(priority) (line 66)
MaxFee(base_fee, priority) ==
    FromBig(MaxFeeBig(ToBig(base_fee), ToBig(priority)))

\* Lines 87 and 66 for each answer the node may give, worked out once.
GasLimitOf == [estimated \in Estimates |-> GasWithMargin(estimated)]
MaxFeeOf ==
    [base_fee \in BaseFees, priority \in PriorityFees \cup {TwoGwei} |->
        MaxFee(base_fee, priority)]

NoFee == [kind |-> "none"]
NoTx == [nonce |-> -1, gas |-> 0, to |-> "-", fee |-> NoFee]

\* Per-cycle bookkeeping (history, not program state).
FreshCycle(n) ==
    [start |-> n, estFailed |-> FALSE, feeFailed |-> FALSE, signed |-> 0,
     broadcasts |-> 0, accepted |-> FALSE, stale |-> FALSE,
     timedOut |-> FALSE, waitEnded |-> FALSE, resyncQueries |-> 0,
     resyncFailed |-> FALSE, resynced |-> None]

VARIABLES
    pc,        \* position of the single thread of control
    waitForConfirmations, \* WAIT_FOR_CONFIRMATIONS (line 25)
    connected, \* what w3.is_connected() answered at line 31 ("-" before)
    unit,      \* argument and result of a function evaluated on its own
    turn,      \* main_loop's turn
    nonces,    \* the global nonces dictionary (NoNonces before line 46)
    na,        \* get_initial_nonces' local na
    nkey,      \* main_loop's nkey / build_and_send's nonce_key
    to,        \* main_loop's to / build_and_send's to_addr
    tx,        \* tx_base, then tx, of the build_and_send in progress
    gasLimit,  \* build_and_send's gas_limit
    baseFee,   \* compute_fee_values' base_fee (None when the block has none)
    feeVals,   \* build_and_send's fee_vals
    errstr,    \* errstr of the except clause of line 114
    result,    \* how the last build_and_send ended
    net,       \* the node's pending-inclusive count per wallet
    external,  \* transactions sent from the keys by other software
    queried,   \* history: what lines 42 and 43 returned
    cyc,       \* history: what happened in the current cycle
    completed, \* history: build_and_send calls that returned or raised
    builtSince,    \* history: nonces of the tx signed since the last resync
    acceptedSince, \* history: nonces of accepted broadcasts since then
    firstBuilt,    \* history: nonce of the first tx_base per wallet
    lastResync     \* history: value of the last resync, until the next build

vars ==
    << pc, waitForConfirmations, connected, unit, turn, nonces, na, nkey, to, tx, gasLimit,
       baseFee, feeVals, errstr, result, net, external, queried, cyc,
       completed, builtSince, acceptedSince, firstBuilt, lastResync >>

NoNonces == [k \in Keys |-> None]
NoUnit == [f |-> "-"]

Init ==
    /\ pc = "connect"
    /\ waitForConfirmations \in {0, 1}
    /\ connected = "-"
    /\ unit = NoUnit
    /\ turn = 0
    /\ nonces = NoNonces
    /\ na = None
    /\ nkey = "-"
    /\ to = "-"
    /\ tx = NoTx
    /\ gasLimit = 0
    /\ baseFee = None
    /\ feeVals = NoFee
    /\ errstr = NoErr
    /\ result = "none"
    /\ net \in [Keys -> InitialCounts]
    /\ external = 0
    /\ queried = NoNonces
    /\ cyc = FreshCycle(NoNonces)
    /\ completed = 0
    /\ builtSince = [k \in Keys |-> {}]
    /\ acceptedSince = [k \in Keys |-> {}]
    /\ firstBuilt = NoNonces
    /\ lastResync = NoNonces

\* Groups of variables an action leaves alone.
config == << waitForConfirmations >>
locals == << gasLimit, baseFee, feeVals, errstr >>
ledger == << builtSince, acceptedSince, firstBuilt, lastResync >>

\* ----------------------------------------------------------------- startup
\* Lines 30-32: the node answers is_connected().
Connect ==
    /\ pc = "connect"
    /\ connected' = "yes"
    /\ pc' = "init_a"
    /\ UNCHANGED << config, unit, turn, nonces, na, nkey, to, tx, locals, result,
                    net, external, queried, cyc, completed, ledger >>

\* Line 31 with the answer of is_connected() ignored.
ConnectFailIgnored ==
    /\ pc = "connect"
    /\ connected' = "no"
    /\ pc' = "init_a"
    /\ UNCHANGED << config, unit, turn, nonces, na, nkey, to, tx, locals,
                    result, net, external, queried, cyc, completed, ledger >>

\* Lines 31-32: is_connected() is false, SystemExit.
ConnectFail ==
    /\ pc = "connect"
    /\ connected' = "no"
    /\ pc' = "exited"
    /\ UNCHANGED << config, unit, turn, nonces, na, nkey, to, tx, locals, result,
                    net, external, queried, cyc, completed, ledger >>

\* Line 42.
InitQueryA ==
    /\ pc = "init_a"
    /\ na' = net["A"]
    /\ queried' = [queried EXCEPT !["A"] = net["A"]]
    /\ pc' = "init_b"
    /\ UNCHANGED << config, unit, connected, turn, nonces, nkey, to, tx, locals, result, net,
                    external, cyc, completed, ledger >>

\* Lines 43-46.
InitQueryB ==
    /\ pc = "init_b"
    /\ nonces' = InitialNonces(na, net["B"])
    /\ queried' = [queried EXCEPT !["B"] = net["B"]]
    /\ pc' = "loop"
    /\ UNCHANGED << config, unit, connected, turn, na, nkey, to, tx, locals, result, net,
                    external, cyc, completed, ledger >>

\* Line 42 or 43 raises: the exception leaves the module, nonces is never bound.
InitQueryFail ==
    /\ pc \in {"init_a", "init_b"}
    /\ pc' = "exited"
    /\ UNCHANGED << config, unit, connected, turn, nonces, na, nkey, to, tx, locals, result,
                    net, external, queried, cyc, completed, ledger >>

\* --------------------------------------------------------------- main_loop
\* Lines 133-144: pick the direction and call build_and_send.
Select ==
    /\ pc = "loop"
    /\ turn < MaxTurn
    /\ nkey' = SenderOf(turn)
    /\ to' = ReceiverOf(turn)
    /\ tx' = NoTx
    /\ gasLimit' = 0
    /\ baseFee' = None
    /\ feeVals' = NoFee
    /\ errstr' = NoErr
    /\ result' = "none"
    /\ cyc' = FreshCycle(nonces)
    /\ pc' = "build"
    /\ UNCHANGED << config, unit, connected, turn, nonces, na, net, external, queried,
                    completed, ledger >>

\* Lines 147-150, after build_and_send returned or its exception was caught;
\* the return value is dropped.
Sleep ==
    /\ pc = "sleep"
    /\ turn' = turn + 1
    /\ result' = "none"
    /\ cyc' = FreshCycle(nonces)
    /\ pc' = "loop"
    /\ UNCHANGED << config, unit, connected, nonces, na, nkey, to, tx, locals, net, external,
                    queried, completed, ledger >>

\* The frame of build_and_send is gone once it has returned or raised.
FrameDropped ==
    /\ tx' = NoTx
    /\ gasLimit' = 0
    /\ baseFee' = None
    /\ feeVals' = NoFee
    /\ errstr' = NoErr

\* build_and_send returns r (lines 113, 126).
Returns(r) ==
    /\ result' = r
    /\ completed' = completed + 1
    /\ FrameDropped
    /\ pc' = "sleep"

\* An exception leaves build_and_send and main_loop with it.
RaisesUncaught ==
    /\ result' = "raised"
    /\ completed' = completed + 1
    /\ FrameDropped
    /\ pc' = "exited"

\* An exception leaves build_and_send and is caught at lines 145-146.
Raises ==
    /\ result' = "raised"
    /\ completed' = completed + 1
    /\ FrameDropped
    /\ pc' = "sleep"

\* ---------------------------------------------------------- build_and_send
\* Lines 75-81: tx_base.
Build ==
    /\ pc = "build"
    /\ tx' = [nonce |-> nonces[nkey], gas |-> 0, to |-> to, fee |-> NoFee]
    /\ firstBuilt' = IF firstBuilt[nkey] = None
                     THEN [firstBuilt EXCEPT ![nkey] = nonces[nkey]]
                     ELSE firstBuilt
    /\ lastResync' = [lastResync EXCEPT ![nkey] = None]
    /\ cyc' = [cyc EXCEPT !.resynced = lastResync[nkey]]
    /\ pc' = "estimate"
    /\ UNCHANGED << config, unit, connected, turn, nonces, na, nkey, to, locals, result, net,
                    external, queried, completed, builtSince, acceptedSince >>

\* Line 80: w3.eth.chain_id raises.
BuildFail ==
    /\ pc = "build"
    /\ Raises
    /\ UNCHANGED << config, unit, connected, turn, nonces, na, nkey, to, net,
                    external, queried, cyc, ledger >>

\* Lines 85-87 and 92: the estimate arrives.
Estimate ==
    /\ pc = "estimate"
    /\ \E estimated \in Estimates :
          /\ gasLimit' = GasLimitOf[estimated]
          /\ tx' = [tx EXCEPT !.gas = GasLimitOf[estimated]]
    /\ pc' = "fee_block"
    /\ UNCHANGED << config, unit, connected, turn, nonces, na, nkey, to, baseFee, feeVals,
                    errstr, result, net, external, queried, cyc, completed,
                    ledger >>

\* Lines 88-92 with the margin of line 87 applied to the fallback.
EstimateFailWithMargin ==
    /\ pc = "estimate"
    /\ gasLimit' = GasWithMargin(FallbackGasLimit)
    /\ tx' = [tx EXCEPT !.gas = GasWithMargin(FallbackGasLimit)]
    /\ cyc' = [cyc EXCEPT !.estFailed = TRUE]
    /\ pc' = "fee_block"
    /\ UNCHANGED << config, unit, connected, turn, nonces, na, nkey, to, baseFee, feeVals,
                    errstr, result, net, external, queried, completed, ledger >>

\* Lines 88-92: estimate_gas raises, the fallback is used.
EstimateFail ==
    /\ pc = "estimate"
    /\ gasLimit' = FallbackGasLimit
    /\ tx' = [tx EXCEPT !.gas = FallbackGasLimit]
    /\ cyc' = [cyc EXCEPT !.estFailed = TRUE]
    /\ pc' = "fee_block"
    /\ UNCHANGED << config, unit, connected, turn, nonces, na, nkey, to, baseFee, feeVals,
                    errstr, result, net, external, queried, completed, ledger >>
\* ------------------------------------------------------ compute_fee_values
\* Lines 55-57: the latest block carries baseFeePerGas.
FeeBlockDynamic ==
    /\ pc = "fee_block"
    /\ \E b \in BaseFees : baseFee' = b
    /\ pc' = "fee_priority"
    /\ UNCHANGED << config, unit, connected, turn, nonces, na, nkey, to, tx, gasLimit, feeVals,
                    errstr, result, net, external, queried, cyc, completed,
                    ledger >>

\* Lines 55-57 and 68: the latest block carries no baseFeePerGas.
FeeBlockLegacy ==
    /\ pc = "fee_block"
    /\ baseFee' = None
    /\ pc' = "fee_legacy"
    /\ UNCHANGED << config, unit, connected, turn, nonces, na, nkey, to, tx, gasLimit, feeVals,
                    errstr, result, net, external, queried, cyc, completed,
                    ledger >>

\* The dictionary of line 67.
DynamicFee(base_fee, priority) ==
    [kind |-> "dynamic", maxPriorityFeePerGas |-> priority,
     maxFeePerGas |-> MaxFeeOf[base_fee, priority]]

\* The dictionary of line 71.
LegacyFee(gp) == [kind |-> "legacy", gasPrice |-> gp]

\* Lines 59-67: max_priority_fee answers, or raises and 2 gwei is used.
FeePriority ==
    /\ pc = "fee_priority"
    /\ \E priority \in PriorityFees \cup {TwoGwei} :
          feeVals' = DynamicFee(baseFee, priority)
    /\ pc' = "sign"
    /\ UNCHANGED << config, unit, connected, turn, nonces, na, nkey, to, tx, gasLimit, baseFee,
                    errstr, result, net, external, queried, cyc, completed,
                    ledger >>

\* Lines 70-71.
FeeLegacy ==
    /\ pc = "fee_legacy"
    /\ \E gp \in GasPrices : feeVals' = LegacyFee(gp)
    /\ pc' = "sign"
    /\ UNCHANGED << config, unit, connected, turn, nonces, na, nkey, to, tx, gasLimit, baseFee,
                    errstr, result, net, external, queried, cyc, completed,
                    ledger >>

\* get_block or gas_price raises and a default price is used instead.
FeeFailSwallowed ==
    /\ pc \in {"fee_block", "fee_legacy"}
    /\ feeVals' = LegacyFee(0)
    /\ cyc' = [cyc EXCEPT !.feeFailed = TRUE]
    /\ pc' = "sign"
    /\ UNCHANGED << config, unit, connected, turn, nonces, na, nkey, to, tx, gasLimit, baseFee,
                    errstr, result, completed, net, external, queried, ledger >>

\* Line 55 or line 70 raises: nothing in compute_fee_values or in
\* build_and_send catches it (line 95 is outside every try).
FeeFail ==
    /\ pc \in {"fee_block", "fee_legacy"}
    /\ cyc' = [cyc EXCEPT !.feeFailed = TRUE]
    /\ Raises
    /\ UNCHANGED << config, unit, connected, turn, nonces, na, nkey, to, net,
                    external, queried, ledger >>

\* ------------------------------------------------------- sign and broadcast
\* Lines 96-99.
Sign ==
    /\ pc = "sign"
    /\ tx' = [tx EXCEPT !.fee = feeVals]
    /\ cyc' = [cyc EXCEPT !.signed = @ + 1]
    /\ builtSince' = [builtSince EXCEPT ![nkey] = @ \cup {tx.nonce}]
    /\ pc' = "send"
    /\ UNCHANGED << config, unit, connected, turn, nonces, na, nkey, to, locals, result, net,
                    external, queried, completed, acceptedSince, firstBuilt,
                    lastResync >>

\* The node's count after it took a transaction with nonce n from wallet k.
NetAfterAccept(k, n) ==
    IF n = net[k] THEN [net EXCEPT ![k] = @ + 1] ELSE net

\* Lines 101-104 and 107 with no receipt wait: a hash comes back.
SendAcceptedNoWait ==
    /\ pc = "send"
    /\ waitForConfirmations = 0
    /\ nonces' = Advance(nonces, nkey)
    /\ net' = NetAfterAccept(nkey, tx.nonce)
    /\ cyc' = [cyc EXCEPT !.broadcasts = @ + 1, !.accepted = TRUE]
    /\ acceptedSince' = [acceptedSince EXCEPT ![nkey] = @ \cup {tx.nonce}]
    /\ Returns("submitted")
    /\ UNCHANGED << config, unit, connected, turn, na, nkey, to, external, queried,
                    builtSince, firstBuilt, lastResync >>

\* Lines 101-104 with the receipt wait left to run on its own: the call
\* returns the hash at once.
SendAcceptedBackground ==
    /\ pc = "send"
    /\ waitForConfirmations > 0
    /\ nonces' = Advance(nonces, nkey)
    /\ net' = NetAfterAccept(nkey, tx.nonce)
    /\ cyc' = [cyc EXCEPT !.broadcasts = @ + 1, !.accepted = TRUE]
    /\ acceptedSince' = [acceptedSince EXCEPT ![nkey] = @ \cup {tx.nonce}]
    /\ Returns("submitted")
    /\ UNCHANGED << config, unit, connected, turn, na, nkey, to, external,
                    queried, builtSince, firstBuilt, lastResync >>

\* Lines 101-104 and 107: a hash comes back and the receipt is waited for.
SendAccepted ==
    /\ pc = "send"
    /\ waitForConfirmations > 0
    /\ nonces' = Advance(nonces, nkey)
    /\ net' = NetAfterAccept(nkey, tx.nonce)
    /\ cyc' = [cyc EXCEPT !.broadcasts = @ + 1, !.accepted = TRUE]
    /\ acceptedSince' = [acceptedSince EXCEPT ![nkey] = @ \cup {tx.nonce}]
    /\ pc' = "wait"
    /\ UNCHANGED << config, unit, connected, turn, na, nkey, to, tx, locals, result, external,
                    queried, completed, builtSince, firstBuilt, lastResync >>

\* send_raw_transaction raises and the same signed bytes are sent again.
SendRejectedRetries ==
    /\ pc = "send"
    /\ \E e \in SendErrTexts : errstr' = e
    /\ cyc' = [cyc EXCEPT !.broadcasts = @ + 1,
                          !.stale = tx.nonce < net[nkey]]
    /\ pc' = "send"
    /\ UNCHANGED << config, unit, connected, turn, nonces, na, nkey, to, tx,
                    gasLimit, baseFee, feeVals, result, net, external, queried,
                    completed, ledger >>

\* Lines 101, 114-117: send_raw_transaction raises.
SendRejected ==
    /\ pc = "send"
    /\ \E e \in SendErrTexts : errstr' = e
    /\ cyc' = [cyc EXCEPT !.broadcasts = @ + 1,
                          !.stale = tx.nonce < net[nkey]]
    /\ pc' = "handler"
    /\ UNCHANGED << config, unit, connected, turn, nonces, na, nkey, to, tx, gasLimit, baseFee,
                    feeVals, result, net, external, queried, completed,
                    ledger >>

\* Lines 109-110, 113: the receipt arrives.
WaitReceipt ==
    /\ pc = "wait"
    /\ cyc' = [cyc EXCEPT !.waitEnded = TRUE]
    /\ Returns("submitted")
    /\ UNCHANGED << config, unit, connected, turn, nonces, na, nkey, to, net,
                    external, queried, ledger >>

\* TimeExhausted handled by the except clause of line 114.
WaitTimeoutUncaught ==
    /\ pc = "wait"
    /\ cyc' = [cyc EXCEPT !.timedOut = TRUE, !.waitEnded = TRUE]
    /\ errstr' = ErrConnection
    /\ pc' = "handler"
    /\ UNCHANGED << config, unit, connected, turn, nonces, na, nkey, to, tx, gasLimit, baseFee,
                    feeVals, result, net, external, queried, completed,
                    ledger >>

\* Lines 111-113: TimeExhausted after 120 s.
WaitTimeout ==
    /\ pc = "wait"
    /\ cyc' = [cyc EXCEPT !.timedOut = TRUE, !.waitEnded = TRUE]
    /\ Returns("submitted")
    /\ UNCHANGED << config, unit, connected, turn, nonces, na, nkey, to, net,
                    external, queried, ledger >>

\* Line 109 raises something else: the except clause of line 114 takes it.
WaitError ==
    /\ pc = "wait"
    /\ \E e \in WaitErrTexts : errstr' = e
    /\ cyc' = [cyc EXCEPT !.waitEnded = TRUE]
    /\ pc' = "handler"
    /\ UNCHANGED << config, unit, connected, turn, nonces, na, nkey, to, tx,
                    gasLimit, baseFee, feeVals, result, net, external, queried,
                    completed, ledger >>

\* Line 118 true: go on to the re-query.
HandlerNonce ==
    /\ pc = "handler"
    /\ IsNonceError(errstr)
    /\ pc' = "resync"
    /\ UNCHANGED << config, unit, connected, turn, nonces, na, nkey, to, tx, locals, result,
                    net, external, queried, cyc, completed, ledger >>

\* Line 118 false, line 126.
HandlerOther ==
    /\ pc = "handler"
    /\ ~IsNonceError(errstr)
    /\ Returns("failed")
    /\ UNCHANGED << config, unit, connected, turn, nonces, na, nkey, to, net,
                    external, queried, cyc, ledger >>

\* Lines 121-123, 126.
ResyncOk ==
    /\ pc = "resync"
    /\ nonces' = Resync(nonces, nkey, net[nkey])
    /\ cyc' = [cyc EXCEPT !.resyncQueries = @ + 1]
    /\ builtSince' = [builtSince EXCEPT ![nkey] = {}]
    /\ acceptedSince' = [acceptedSince EXCEPT ![nkey] = {}]
    /\ lastResync' = [lastResync EXCEPT ![nkey] = net[nkey]]
    /\ Returns("failed")
    /\ UNCHANGED << config, unit, connected, turn, na, nkey, to, net, external,
                    queried, firstBuilt >>

\* Line 121 raises and nothing catches it inside build_and_send.
ResyncFailUncaught ==
    /\ pc = "resync"
    /\ cyc' = [cyc EXCEPT !.resyncQueries = @ + 1, !.resyncFailed = TRUE]
    /\ Raises
    /\ UNCHANGED << config, unit, connected, turn, nonces, na, nkey, to, net,
                    external, queried, ledger >>

\* Lines 121, 124-126: the re-query raises.
ResyncFail ==
    /\ pc = "resync"
    /\ cyc' = [cyc EXCEPT !.resyncQueries = @ + 1, !.resyncFailed = TRUE]
    /\ Returns("failed")
    /\ UNCHANGED << config, unit, connected, turn, nonces, na, nkey, to, net,
                    external, queried, ledger >>

\* ------------------------------------------------------------- environment
\* Other software sends a transaction from one of the two keys.  The script
\* sees the node's count only at lines 42, 43, 101 and 121, so it is enough
\* to let the count move right before one of these calls.
External ==
    /\ pc \in {"init_a", "init_b", "send", "resync"}
    /\ external < MaxExternal
    /\ \E k \in Keys : net' = [net EXCEPT ![k] = @ + 1]
    /\ external' = external + 1
    /\ UNCHANGED << pc, config, unit, connected, turn, nonces, na, nkey, to, tx, locals, result,
                    queried, cyc, completed, ledger >>

Next ==
    \/ Connect
    \/ ConnectFail
    \/ InitQueryA
    \/ InitQueryB
    \/ InitQueryFail
    \/ Select
    \/ Sleep
    \/ Build
    \/ BuildFail
    \/ Estimate
    \/ EstimateFail
    \/ FeeBlockDynamic
    \/ FeeBlockLegacy
    \/ FeePriority
    \/ FeeLegacy
    \/ FeeFail
    \/ Sign
    \/ SendAcceptedNoWait
    \/ SendAccepted
    \/ SendRejected
    \/ WaitReceipt
    \/ WaitTimeout
    \/ WaitError
    \/ HandlerNonce
    \/ HandlerOther
    \/ ResyncOk
    \/ ResyncFail
    \/ External

Spec == Init /\ [][Next]_vars

\* A step of the script itself: every action but the node's own moves.
Step ==
    \/ Connect \/ ConnectFail \/ InitQueryA \/ InitQueryB \/ InitQueryFail
    \/ Select \/ Sleep \/ Build \/ BuildFail \/ Estimate \/ EstimateFail
    \/ FeeBlockDynamic \/ FeeBlockLegacy \/ FeePriority \/ FeeLegacy
    \/ FeeFail \/ Sign \/ SendAcceptedNoWait \/ SendAccepted \/ SendRejected
    \/ WaitReceipt \/ WaitTimeout \/ WaitError \/ HandlerNonce
    \/ HandlerOther \/ ResyncOk \/ ResyncFail

\* Every call the script makes returns or raises, and time.sleep ends: the
\* single thread is never stuck while it has a step to take.
\* Progress is examined from the startups at which both wallets have sent
\* nothing yet; whether a call returns does not depend on the counts.
FairInit == Init /\ net = [k \in Keys |-> 0]

FairSpec == FairInit /\ [][Next]_vars /\ WF_vars(Step)

\* ------------------------------------- the two computations on their own
\* compute_fee_values and the gas margin of line 87 are applied to answers of
\* the node of any size, ints being kept as digit sequences.
MaxUnitInput == 30

\* 511772684928469, 1801439850948199 and 4503599627370499
LargeEstimate == Dec(<< 5,1,1,7,7,2,6,8,4,9,2,8,4,6,9 >>)
LargeBaseFee == Dec(<< 1,8,0,1,4,3,9,8,5,0,9,4,8,1,9,9 >>)
LargerBaseFee == Dec(<< 4,5,0,3,5,9,9,6,2,7,3,7,0,4,9,9 >>)

\* What w3.eth.estimate_gas may return.
UnitEstimates ==
    {ToBig(e) : e \in 0..MaxUnitInput}
        \cup {ToBig(FallbackGasLimit), ToBig(100000), LargeEstimate}

\* What block.get("baseFeePerGas", None) may return.
UnitBlocks ==
    {[has |-> FALSE, value |-> << >>]}
        \cup {[has |-> TRUE, value |-> b] :
                 b \in {ToBig(n) : n \in 0..MaxUnitInput}
                          \cup {ToBig(100), LargeBaseFee, LargerBaseFee}}

\* What w3.eth.max_priority_fee may do: answer, or raise.
UnitPriorities ==
    {[raises |-> TRUE, value |-> << >>]}
        \cup {[raises |-> FALSE, value |-> ToBig(p)] :
                 p \in {0, 10, 1500000000}}

\* What w3.eth.gas_price may return.
UnitGasPrices == {ToBig(30), ToBig(1000000007)}

NoOut == [kind |-> "none"]

\* The dictionary of line 67, on ints of any size.
DynamicFeeBig(base_fee, priority) ==
    [kind |-> "dynamic", maxPriorityFeePerGas |-> priority,
     maxFeePerGas |-> MaxFeeBig(base_fee, priority)]

ArithInit ==
    /\ pc = "unit"
    /\ \/ \E e \in UnitEstimates :
             unit = [f |-> "gas", estimated |-> e, out |-> NoOut]
       \/ \E b \in UnitBlocks, p \in UnitPriorities, g \in UnitGasPrices :
             unit = [f |-> "fee", block |-> b, priority |-> p,
                     gas_price |-> g, out |-> NoOut]
    /\ waitForConfirmations = 0
    /\ connected = "-"
    /\ turn = 0
    /\ nonces = NoNonces
    /\ na = None
    /\ nkey = "-"
    /\ to = "-"
    /\ tx = NoTx
    /\ gasLimit = 0
    /\ baseFee = None
    /\ feeVals = NoFee
    /\ errstr = NoErr
    /\ result = "none"
    /\ net = [k \in Keys |-> 0]
    /\ external = 0
    /\ queried = NoNonces
    /\ cyc = FreshCycle(NoNonces)
    /\ completed = 0
    /\ builtSince = [k \in Keys |-> {}]
    /\ acceptedSince = [k \in Keys |-> {}]
    /\ firstBuilt = NoNonces
    /\ lastResync = NoNonces

UnitFrame ==
    UNCHANGED << config, connected, turn, nonces, na, nkey, to, tx, locals,
                 result, net, external, queried, cyc, completed, ledger >>

\* Lines 85-87: estimate_gas answered.
UnitGasMargin ==
    /\ pc = "unit"
    /\ unit.f = "gas"
    /\ unit' = [unit EXCEPT
                  !.out = [kind |-> "gas",
                           gas |-> GasWithMarginBig(unit.estimated)]]
    /\ pc' = "unit_done"
    /\ UnitFrame

\* Lines 55-67 with max_priority_fee answering.
UnitFeeDynamic ==
    /\ pc = "unit"
    /\ unit.f = "fee"
    /\ unit.block.has
    /\ ~unit.priority.raises
    /\ unit' = [unit EXCEPT
                  !.out = DynamicFeeBig(unit.block.value, unit.priority.value)]
    /\ pc' = "unit_done"
    /\ UnitFrame

\* Lines 55-67 with max_priority_fee raising: 2 gwei (lines 61-63).
UnitFeeFallback ==
    /\ pc = "unit"
    /\ unit.f = "fee"
    /\ unit.block.has
    /\ unit.priority.raises
    /\ unit' = [unit EXCEPT
                  !.out = DynamicFeeBig(unit.block.value, ToBig(TwoGwei))]
    /\ pc' = "unit_done"
    /\ UnitFrame

\* Lines 55-57 and 68-71: no base fee in the block.
UnitFeeLegacy ==
    /\ pc = "unit"
    /\ unit.f = "fee"
    /\ ~unit.block.has
    /\ unit' = [unit EXCEPT !.out = LegacyFee(unit.gas_price)]
    /\ pc' = "unit_done"
    /\ UnitFrame

ArithNext ==
    \/ UnitGasMargin
    \/ UnitFeeDynamic
    \/ UnitFeeFallback
    \/ UnitFeeLegacy

ArithSpec == ArithInit /\ [][ArithNext]_vars

\* ------------------------------------------------------------------ claims
Frame ==
    {"estimate", "fee_block", "fee_priority", "fee_legacy", "sign", "send",
     "wait", "handler", "resync"}
InCycle == Frame \cup {"build", "sleep"}
AcceptStep == pc = "send" /\ cyc'.accepted
BuildStep == pc = "build" /\ pc' = "estimate"
SignStep == pc = "sign" /\ pc' = "send"
ResyncOkStep == pc = "resync" /\ pc' = "sleep" /\ ~cyc'.resyncFailed

\* C1 as stated: no transaction is built and signed for a wallet with a
\* nonce that an earlier built and signed transaction of that wallet
\* carried, unless the wallet's nonce was re-read from the node in between.
C1_NoNonceReuseBuilt ==
    [][SignStep => tx.nonce \notin builtSince[nkey]]_vars

\* C1 amended: no broadcast of a wallet is accepted with a nonce that an
\* earlier accepted broadcast of that wallet carried, unless the wallet's
\* nonce was re-read from the node in between.
C1_NoNonceReuseAccepted ==
    [][AcceptStep => tx.nonce \notin acceptedSince[nkey]]_vars

\* Two broadcasts of wallet A were accepted with no resync between them.
C1_Witness == Cardinality(acceptedSince["A"]) = 2

\* C2: turn starts at 0 and counts the build_and_send calls that ended,
\* however they ended; during cycle n the sender is A and the receiver B
\* when n is even, and the other way round when n is odd.
C2_Alternation ==
    /\ pc \in {"connect", "init_a", "init_b"} => turn = 0
    /\ pc # "exited" => turn = completed - (IF pc = "sleep" THEN 1 ELSE 0)
    /\ pc \in InCycle =>
          /\ turn % 2 = 0 => (nkey = "A" /\ to = "B")
          /\ turn % 2 = 1 => (nkey = "B" /\ to = "A")

\* The second cycle, B to A, ended with an exception.
C2_Witness == pc = "sleep" /\ turn = 1 /\ result = "raised" /\ nkey = "B"

\* C3: an accepted broadcast leaves the sender's stored nonce one above the
\* nonce the transaction carried, and the stored nonce of a wallet changes in
\* no other step except where it is read from the node (startup, resync).
C3_AdvanceOnlyOnAccept ==
    [][\A k \in Keys :
          /\ (AcceptStep /\ k = nkey) => nonces'[k] = tx.nonce + 1
          /\ nonces'[k] # nonces[k] =>
                \/ AcceptStep /\ k = nkey /\ nonces'[k] = nonces[k] + 1
                \/ pc = "resync" /\ k = nkey /\ nonces'[k] = net[k]
                \/ pc = "init_b" /\ nonces'[k] = queried'[k]]_vars

\* A broadcast was accepted and the sender's nonce is one above its value at
\* the start of the cycle.
C3_Witness ==
    pc = "wait" /\ cyc.accepted /\ nonces[nkey] = cyc.start[nkey] + 1

\* The error texts of SendErrTexts that belong to the sequence-conflict
\* family, listed one by one.
ConflictFamily ==
    {ErrNonceTooLow, ErrNonceTooLowCap, ErrReplacement, ErrAlreadyKnown}

C5_ResyncCorrects ==
    [][/\ (ResyncOkStep /\ cyc.stale /\ ~cyc.accepted) =>
             /\ cyc'.resyncQueries = 1
             /\ nonces'[nkey] = net[nkey]
             /\ nonces'[Other(nkey)] = nonces[Other(nkey)]
       /\ \A k \in Keys :
             lastResync[k] # None =>
                /\ nonces'[k] = lastResync[k]
                /\ (BuildStep /\ nkey = k) => tx'.nonce = lastResync[k]
      ]_vars

\* A tx_base built with a nonce that a resync, not the startup query or an
\* advance, put there.
C5_Witness ==
    /\ pc = "estimate"
    /\ cyc.resynced # None
    /\ tx.nonce = cyc.resynced
    /\ tx.nonce > queried[nkey]
    /\ turn = 2

\* C6: right after startup the stored nonces are the counts the node
\* returned, and the first tx_base of each wallet carries that count.
C6_InitialNonces ==
    /\ (pc = "loop" /\ turn = 0) => \A k \in Keys : nonces[k] = queried[k]
    /\ \A k \in Keys : firstBuilt[k] # None => firstBuilt[k] = queried[k]

\* B's first tx_base was built, with the node's counts for A and B differing.
C6_Witness ==
    /\ firstBuilt["B"] # None
    /\ queried["A"] # queried["B"]
    /\ firstBuilt["B"] = queried["B"]

\* C7: when the re-query after a rejected broadcast raises, nonces keeps the
\* value it had at the start of the cycle, build_and_send returns None and
\* main_loop goes on to its sleep.
C7_ResyncFailureKeepsNonce ==
    (cyc.resyncFailed /\ ~cyc.accepted) =>
        /\ pc = "sleep"
        /\ result = "failed"
        /\ nonces = cyc.start

\* The re-query failed while the stored nonce was behind the node.
C7_Witness ==
    /\ pc = "sleep"
    /\ cyc.resyncFailed
    /\ cyc.stale
    /\ nonces[nkey] < net[nkey]

\* C8: when get_block or gas_price raises, build_and_send raises, nothing
\* was signed or broadcast, nonces is as at the start of the cycle, and the
\* next step of main_loop increments turn.
C8_FeeFailureAbortsCycle ==
    [][/\ cyc'.feeFailed =>
             /\ pc' = "sleep"
             /\ result' = "raised"
             /\ cyc'.signed = 0
             /\ cyc'.broadcasts = 0
             /\ nonces' = cyc'.start
       /\ (cyc.feeFailed /\ pc' # pc) =>
             (turn' = turn + 1 /\ pc' = "loop" /\ nonces' = nonces)
      ]_vars

\* A cycle ended by a failed fee query.
C8_Witness == pc = "sleep" /\ cyc.feeFailed /\ result = "raised"

\* C9: when estimate_gas raises, the transaction carries gas 21000 and the
\* unchanged stored nonce, and unless the fee query fails afterwards the
\* cycle signs and broadcasts it.
C9_FallbackGas ==
    cyc.estFailed =>
        /\ pc \in Frame =>
              (tx.gas = 21000 /\ gasLimit = 21000 /\ tx.nonce = cyc.start[nkey])
        /\ pc \in {"fee_block", "fee_priority", "fee_legacy", "sign", "send"} =>
              nonces = cyc.start
        /\ (pc = "sleep" /\ ~cyc.feeFailed) =>
              (cyc.signed = 1 /\ cyc.broadcasts = 1)

\* A transaction built after a failed estimate was accepted by the node.
C9_Witness == pc = "wait" /\ cyc.estFailed /\ cyc.accepted /\ tx.gas = 21000

\* C10: when the receipt wait times out, build_and_send returns the hash,
\* the sender's nonce stays one above its value at the start of the cycle,
\* the other wallet's is untouched, no re-query was made and main_loop goes
\* on to its sleep.
C10_TimeoutIsNotFailure ==
    cyc.timedOut =>
        /\ pc = "sleep"
        /\ result = "submitted"
        /\ nonces[nkey] = cyc.start[nkey] + 1
        /\ nonces[Other(nkey)] = cyc.start[Other(nkey)]
        /\ cyc.resyncQueries = 0

\* A cycle whose receipt wait timed out.
C10_Witness == pc = "sleep" /\ cyc.timedOut /\ cyc.accepted

\* C11: once startup has succeeded, the script never leaves main_loop, and
\* from the start of any cycle the loop reaches the start of every later
\* cycle explored, whatever failed in between.
C11_LoopNeverEnds ==
    /\ [][nonces # NoNonces => pc' # "exited"]_vars
    /\ (pc = "loop") ~> (pc = "loop" /\ turn = MaxTurn)

\* The last cycle explored was reached although an earlier call raised.
C11_Witness == pc = "loop" /\ turn = MaxTurn /\ completed = MaxTurn

\* C12: when is_connected() answers false the script exits at once: nonces
\* is never bound, no query was made, no cycle ran and nothing was built,
\* signed or broadcast.
C12_NoStartWithoutNode ==
    connected = "no" =>
        /\ pc = "exited"
        /\ nonces = NoNonces
        /\ queried = NoNonces
        /\ turn = 0
        /\ completed = 0
        /\ tx = NoTx
        /\ firstBuilt = NoNonces
        /\ \A k \in Keys : builtSince[k] = {} /\ acceptedSince[k] = {}
        /\ cyc.signed = 0 /\ cyc.broadcasts = 0

\* The node did not answer at startup.
C12_Witness == connected = "no" /\ pc = "exited"

\* C15 as stated: once nonces is bound, the stored nonce of a wallet changes
\* only in the step where its broadcast was accepted (by +1) or in the re-query
\* that
\* follows a rejected broadcast of that wallet whose text is of the conflict
\* family (to the node's count); every other step leaves it alone.
C15_NonceFrame ==
    [][nonces # NoNonces =>
          \A k \in Keys :
             nonces'[k] # nonces[k] =>
                \/ /\ AcceptStep
                   /\ k = nkey
                   /\ nonces'[k] = nonces[k] + 1
                \/ /\ pc = "resync"
                   /\ k = nkey
                   /\ ~cyc.accepted
                   /\ cyc.broadcasts = 1
                   /\ errstr \in ConflictFamily
                   /\ nonces'[k] = net[k]]_vars

\* C16: as long as no other software has sent from the two keys, the stored
\* nonce of each wallet is not behind the node's count when a cycle starts.
C16_NotBehindAtCycleStart ==
    (external = 0 /\ pc \in {"loop", "build"}) =>
        \A k \in Keys : nonces[k] >= net[k]

\* The third cycle starts after A's first broadcast was accepted.
C16_Witness ==
    /\ pc = "build"
    /\ turn = 2
    /\ external = 0
    /\ nonces["A"] = queried["A"] + 1
    /\ net["A"] = queried["A"] + 1

\* C17 as stated: a cycle whose broadcast was accepted ends with the hash
\* returned, the sender's nonce one above its value at the start of the
\* cycle and no re-query made, however the receipt wait ended.
C17_AcceptedMeansSubmitted ==
    (pc = "sleep" /\ cyc.accepted) =>
        /\ result = "submitted"
        /\ nonces[nkey] = cyc.start[nkey] + 1
        /\ cyc.resyncQueries = 0

\* C18: a cycle signs at most one transaction and broadcasts it at most once;
\* what is broadcast was built in this cycle from the stored nonce, and after
\* a rejection the cycle goes on to its end without sending again.
C18_OneBroadcastPerCycle ==
    /\ cyc.signed <= 1
    /\ cyc.broadcasts <= cyc.signed
    /\ pc = "send" =>
          /\ cyc.signed = 1
          /\ cyc.broadcasts = 0
          /\ tx.nonce = nonces[nkey]
          /\ tx.to = to
    /\ pc \in {"wait", "handler", "resync"} => cyc.broadcasts = 1

\* A cycle ended after one rejected broadcast, a later cycle of the same
\* wallet than an earlier rejected one.
C18_Witness ==
    /\ pc = "sleep"
    /\ turn = 2
    /\ cyc.signed = 1
    /\ cyc.broadcasts = 1
    /\ ~cyc.accepted
    /\ Cardinality(builtSince[nkey]) = 1
    /\ nonces = queried

\* C19: build_and_send runs only when every earlier call has ended, and the
\* receipt wait is inline: the call does not end, and so the delay and the
\* next cycle do not begin, while the wait is unresolved.
C19_Sequential ==
    /\ pc \in Frame \cup {"build"} => completed = turn
    /\ pc = "wait" => (cyc.accepted /\ ~cyc.waitEnded)
    /\ (cyc.accepted /\ waitForConfirmations > 0 /\ pc # "wait") =>
          cyc.waitEnded
    /\ pc \in {"loop", "build"} => (~cyc.accepted /\ cyc.broadcasts = 0)

\* The second cycle ended after its receipt wait was resolved.
C19_Witness ==
    /\ pc = "sleep"
    /\ turn = 1
    /\ waitForConfirmations > 0
    /\ cyc.accepted
    /\ cyc.waitEnded

\* C13 as stated: with a base fee in the block compute_fee_values returns the
\* dynamic parameters, the priority fee being the node's answer (2 gwei when
\* the query raises) and maxFeePerGas being floor(5 * baseFee / 2) plus that
\* priority fee, for base fees and priority fees of any size; with no base
\* fee it returns the legacy gasPrice and nothing else.
C13_FeeFormula ==
    (pc = "unit_done" /\ unit.f = "fee") =>
        IF unit.block.has
        THEN LET priority == IF unit.priority.raises
                             THEN ToBig(TwoGwei)
                             ELSE unit.priority.value
             IN  /\ unit.out.kind = "dynamic"
                 /\ unit.out.maxPriorityFeePerGas = priority
                 /\ unit.out.maxFeePerGas =
                       AddBig(DivBig(MulBig(ToBig(5), unit.block.value), 2),
                              priority)
        ELSE /\ unit.out.kind = "legacy"
             /\ DOMAIN unit.out = {"kind", "gasPrice"}
             /\ unit.out.gasPrice = unit.gas_price

\* C14 as stated: when estimate_gas answers e the gas limit is
\* floor(11 * e / 10), for an e of any size.
C14_GasMargin ==
    (pc = "unit_done" /\ unit.f = "gas") =>
        /\ unit.out.kind = "gas"
        /\ unit.out.gas = DivBig(MulBig(ToBig(11), unit.estimated), 10)
=============================================================================
